---------------------------- MODULE Spec2Model ----------------------------
(***************************************************************************)
(* rpn: a reverse polish notation calculator (TLINDEN/rpnc, Go version).   *)
(*                                                                         *)
(* The model covers the Stack type (linked list, one backup, revision),    *)
(* the two function tables, the extension (Lua) bridge as seen by the      *)
(* evaluator, the register variables, the command tables, and              *)
(* Calc.Eval / Calc.EvalItem, which split a line into items and dispatch   *)
(* every item in a fixed order of precedence.                              *)
(*                                                                         *)
(* Numbers are float64 in the program.  The model computes with integers:  *)
(* a result that is no integer (1 2 /) is the value Inexact, and a step    *)
(* that would put Inexact on the stack is outside the model.  NaN and the  *)
(* constant Pi are values of their own that can be stored and moved but    *)
(* not computed with.                                                      *)
(***************************************************************************)
EXTENDS Integers, Sequences, FiniteSets, TLC

VARIABLES
    calc,      \* the Calc object: stack, mode flags, history, Vars
    text,      \* Eval: the line as it was typed
    line,      \* Eval: the items of the line being evaluated
    pos,       \* Eval: number of items of the line handed to EvalItem so far
    err,       \* the error returned by the last EvalItem (<< >> is nil)
    status,    \* "idle", "eval" (inside Eval's loop), "done", "panic", "exit"
    out,       \* the lines printed by the last item
    printed,   \* the results Result() printed since Eval was called
    start,     \* the Calc object as it was when Eval was called
    prev,      \* the Calc object as it was before the last item
    nlines,    \* Main: the number of lines read so far
    stk,       \* a Stack used through its methods alone
    was,       \* stk before the last call
    call,      \* the last call on stk: method, argument, what it returned
    backedup,  \* Backup() was called on stk
    ncalls,    \* the number of calls made on stk
    pc,        \* goroutines: the method each one is in and where in it
    mutex,     \* Stack.mutex: the goroutine that holds it, 0 when free
    local      \* goroutines: the items a Swap has taken off the list

calcvars == <<calc, text, line, pos, err, status, out, printed, start, prev, nlines>>
stackvars == <<stk, was, call, backedup, ncalls>>
govars == <<pc, mutex, local>>
vars == <<calcvars, stackvars, govars>>

-----------------------------------------------------------------------------
(* Bounds of the model *)

\* a session is this many lines long
MaxLines == 2
\* the numbers on the stack stay within -MaxNum .. MaxNum
MaxNum == 400
\* a Stack used directly starts with up to this many items
MaxDepth == 4
\* and this many of its methods are called
MaxCalls == 3

-----------------------------------------------------------------------------
(* Numbers *)

\* 0/0, as computed by mean() on an empty argument list, and Sqrt(-1)
NaN == 1000001
\* a float64 result that is no integer: not representable in the model
Inexact == NaN + 1
\* math.Pi, kept symbolic
MathPi == NaN + 2

Finite(x) == x > -NaN /\ x < NaN

Max(a, b) == IF a > b THEN a ELSE b
Min(a, b) == IF a < b THEN a ELSE b

RECURSIVE Pow2(_)
Pow2(n) == IF n <= 0 THEN 1 ELSE 2 * Pow2(n - 1)

\* a to the n-th for n >= 0, Inexact as soon as it passes MaxNum
RECURSIVE IntPow(_, _)
IntPow(a, n) ==
    IF n <= 0 THEN 1
    ELSE LET p == IntPow(a, n - 1)
         IN IF p = Inexact \/ p * a > MaxNum \/ p * a < -MaxNum
            THEN Inexact ELSE p * a

\* int(a) << int(b) on 64 bit integers: 0 from 64 bits on; the model does
\* not follow shifts by more than 16 bits
ShiftLeft(a, b) ==
    IF b >= 64 THEN 0 ELSE IF b > 16 THEN Inexact ELSE a * Pow2(b)

\* int(a) >> int(b): the sign is kept
ShiftRight(a, b) ==
    IF b >= 64 THEN (IF a < 0 THEN -1 ELSE 0)
    ELSE IF b > 16 THEN Inexact ELSE a \div Pow2(b)

\* a / b on float64 where the quotient is an integer, Inexact otherwise
Abs(a) == IF a < 0 THEN -a ELSE a

ExactDiv(a, b) ==
    IF b # 0 /\ (Abs(a) % Abs(b)) = 0
    THEN (IF (a < 0) = (b < 0) THEN 1 ELSE -1) * (Abs(a) \div Abs(b))
    ELSE Inexact

\* math.Sqrt on the perfect squares, NaN on negative numbers
Sqrt(a) ==
    IF a < 0 THEN NaN
    ELSE IF \E r \in 0..a : r * r = a
         THEN CHOOSE r \in 0..a : r * r = a
         ELSE Inexact

-----------------------------------------------------------------------------
(* Stack: a linked list, its backup and their revisions (stack.go) *)

NewStack ==
    [linklist |-> << >>, backup |-> << >>, debug |-> FALSE,
     rev |-> 0, backuprev |-> 0]

StackToggleDebug(s) == [s EXCEPT !.debug = ~@]

Bump(s) == [s EXCEPT !.rev = @ + 1]

\* a Push that counts the revision and drops the item
PushNothing(s, item) == Bump(s)

\* a Push that puts the item in front of the list
PushFront(s, item) == [Bump(s) EXCEPT !.linklist = <<item>> \o @]

\* append an item to the stack
Push(s, item) == [Bump(s) EXCEPT !.linklist = Append(@, item)]

\* the value Pop returns: the tail, or 0 when the list is empty
PopValue(s) ==
    IF Len(s.linklist) = 0 THEN 0 ELSE s.linklist[Len(s.linklist)]

\* a Pop that counts a revision for the empty list too
PopBumping(s) ==
    Bump([s EXCEPT !.linklist = SubSeq(@, 1, Max(Len(@) - 1, 0))])

\* the stack Pop leaves: nothing changes when the list is empty
Pop(s) ==
    IF Len(s.linklist) = 0 THEN s
    ELSE Bump([s EXCEPT !.linklist = SubSeq(@, 1, Len(@) - 1)])

\* Shift removes the tail count times; Remove(nil) dereferences nil once
\* the list has run empty inside the loop
ShiftPanics(s, count) ==
    Len(s.linklist) > 0 /\ count > Len(s.linklist)

Shift(s, count) ==
    IF Len(s.linklist) = 0 THEN s
    ELSE [s EXCEPT !.linklist = SubSeq(@, 1, Max(Len(@) - count, 0))]

Swap(s) ==
    IF Len(s.linklist) < 2 THEN s
    ELSE LET n == Len(s.linklist)
             prevA == s.linklist[n]
             prevB == s.linklist[n - 1]
         IN [s EXCEPT !.linklist = SubSeq(@, 1, n - 2) \o <<prevA, prevB>>]

\* a Last that counts from the bottom of the stack
LastFromBottom(s, num) == SubSeq(s.linklist, 1, Min(num, Len(s.linklist)))

\* a Last that hands out the items top first
LastMirrored(s, num) ==
    LET n == Len(s.linklist)
        k == Min(num, n)
    IN [i \in 1..k |-> s.linklist[n - i + 1]]

\* the last num items, bottom to top; fewer when the stack is shorter
Last(s, num) ==
    LET n == Len(s.linklist)
    IN SubSeq(s.linklist, Max(n - num, 0) + 1, n)

All(s) == s.linklist

Clear(s) == [s EXCEPT !.linklist = << >>]

StackLen(s) == Len(s.linklist)

\* a Backup that notes the revision but keeps the old copy of the list
BackupRevOnly(s) == [s EXCEPT !.backuprev = s.rev]

Backup(s) == [s EXCEPT !.backup = s.linklist, !.backuprev = s.rev]

\* a Restore that uses the backup up
RestoreOnce(s) ==
    IF s.rev = 0 THEN s
    ELSE [s EXCEPT !.rev = s.backuprev, !.linklist = s.backup,
                   !.backup = << >>]

\* a Restore that starts the revisions anew
RestoreToZero(s) ==
    IF s.rev = 0 THEN s
    ELSE [s EXCEPT !.rev = 0, !.linklist = s.backup]

\* a Restore that keeps what it replaces as the new backup (a redo)
RestoreSwap(s) ==
    IF s.rev = 0 THEN s
    ELSE [s EXCEPT !.rev = s.backuprev, !.linklist = s.backup,
                   !.backuprev = s.rev, !.backup = s.linklist]

\* Restore refuses at revision 0 and prints "error: stack is empty."
RestoreRefused(s) == s.rev = 0

Restore(s) ==
    IF s.rev = 0 THEN s
    ELSE [s EXCEPT !.rev = s.backuprev, !.linklist = s.backup]

RECURSIVE Mirror(_)
Mirror(seq) ==
    IF seq = << >> THEN << >>
    ELSE <<seq[Len(seq)]>> \o Mirror(SubSeq(seq, 1, Len(seq) - 1))

\* Reverse's first loop: e walks from the front (index e, 0 is nil) while
\* every round removes the tail and appends it to items.  e.Next() is nil
\* once e itself was the removed tail or e has become the last element.
RECURSIVE ReverseLoop(_, _, _)
ReverseLoop(list, e, items) ==
    IF e = 0 THEN [list |-> list, items |-> items]
    ELSE LET tail == Len(list)
             rest == SubSeq(list, 1, tail - 1)
             next == IF e = tail \/ e + 1 > Len(rest) THEN 0 ELSE e + 1
         IN ReverseLoop(rest, next, Append(items, list[tail]))

\* the second loop pushes items[len-1] .. items[0] to the front
Reverse(s) ==
    LET r == ReverseLoop(s.linklist, IF s.linklist = << >> THEN 0 ELSE 1, << >>)
    IN [s EXCEPT !.linklist = r.items \o r.list]

-----------------------------------------------------------------------------
(* The function tables (funcs.go) *)

\* Funcall.Expectargs of the normal table; NewFuncall assumes 2
Funcalls ==
    [name \in {"+", "-", "x", "*", "/", "^", "%", "%-", "%+", "<", ">"} |-> 2]
    @@ [name \in {"sqrt", "abs"} |-> 1]

\* Funcall.Expectargs of the batch table: -1, the whole stack
BatchFuncalls ==
    [name \in {"median", "mean", "avg", "min", "max", "sum", "+"} |-> -1]

\* R: the result of a function.  An error is the sequence of the parts of
\* its message, nil is the empty sequence; panic is a Go runtime panic
NewR(n, e) == [Res |-> n, Err |-> e, panic |-> FALSE]
Panic == [Res |-> 0, Err |-> << >>, panic |-> TRUE]

\* the model does not compute with NaN, Pi or Inexact
AllFinite(arg) == \A i \in 1..Len(arg) : Finite(arg[i])

\* arg[1] < 0; uint64(arg[1]) > math.MaxInt64 never holds for the small
\* numbers here
NegativeShift(arg) == Finite(arg[2]) /\ arg[2] < 0

\* Func of the normal table, called with exactly Expectargs arguments
NormalFunc(name, arg) ==
    IF name = "/" /\ arg[2] = 0 THEN NewR(0, <<"division by null">>)
    ELSE IF name \in {"<", ">"} /\ NegativeShift(arg)
         THEN NewR(0, <<"negative shift amount">>)
    ELSE IF ~AllFinite(arg) THEN NewR(Inexact, << >>)
    ELSE CASE name = "+" -> NewR(arg[1] + arg[2], << >>)
           [] name = "-" -> NewR(arg[1] - arg[2], << >>)
           [] name \in {"x", "*"} -> NewR(arg[1] * arg[2], << >>)
           [] name = "/" -> NewR(ExactDiv(arg[1], arg[2]), << >>)
           [] name = "^" ->
                NewR(IF arg[2] >= 0 THEN IntPow(arg[1], arg[2]) ELSE Inexact,
                     << >>)
           [] name = "%" -> NewR(ExactDiv(arg[1] * arg[2], 100), << >>)
           [] name = "%-" ->
                LET p == ExactDiv(arg[1] * arg[2], 100)
                IN NewR(IF p = Inexact THEN Inexact ELSE arg[1] - p, << >>)
           [] name = "%+" ->
                LET p == ExactDiv(arg[1] * arg[2], 100)
                IN NewR(IF p = Inexact THEN Inexact ELSE arg[1] + p, << >>)
           [] name = "<" -> NewR(ShiftLeft(arg[1], arg[2]), << >>)
           [] name = ">" -> NewR(ShiftRight(arg[1], arg[2]), << >>)
           [] name = "sqrt" -> NewR(Sqrt(arg[1]), << >>)
           [] name = "abs" -> NewR(Abs(arg[1]), << >>)

RECURSIVE SumOf(_)
SumOf(args) ==
    IF args = << >> THEN 0 ELSE args[1] + SumOf(Tail(args))

RECURSIVE MinOf(_, _)
MinOf(min, args) ==
    IF args = << >> THEN min
    ELSE MinOf(IF args[1] < min THEN args[1] ELSE min, Tail(args))

RECURSIVE MaxOf(_, _)
MaxOf(max, args) ==
    IF args = << >> THEN max
    ELSE MaxOf(IF args[1] > max THEN args[1] ELSE max, Tail(args))

\* a median that takes the middle of the sorted values
MedianSorted(args) ==
    CHOOSE x \in {args[i] : i \in 1..Len(args)} :
       /\ Cardinality({i \in 1..Len(args) : args[i] < x}) <= Len(args) \div 2
       /\ Cardinality({i \in 1..Len(args) : args[i] <= x}) > Len(args) \div 2

\* median: middle := len(args) / 2, args[middle], on the arguments as they are
Median(args) == args[(Len(args) \div 2) + 1]

\* Func of the batch table, called with all items of the stack.  Indexing
\* an empty argument list (median, min, max) is a runtime panic; mean
\* divides 0 by 0
BatchFunc(name, args) ==
    IF name \in {"median", "min", "max"} /\ Len(args) = 0 THEN Panic
    ELSE IF ~AllFinite(args) THEN NewR(Inexact, << >>)
    ELSE CASE name = "median" -> NewR(Median(args), << >>)
           [] name \in {"mean", "avg"} ->
                NewR(IF Len(args) = 0 THEN NaN
                     ELSE ExactDiv(SumOf(args), Len(args)), << >>)
           [] name = "min" -> NewR(MinOf(args[1], Tail(args)), << >>)
           [] name = "max" -> NewR(MaxOf(args[1], Tail(args)), << >>)
           [] name \in {"sum", "+"} -> NewR(SumOf(args), << >>)

-----------------------------------------------------------------------------
(* The extension bridge (interpreter.go) *)

\* LuaFuncs: the functions a config file registered, name to numargs.  The
\* first three are those of example.lua; the last two stand for any
\* function of arity 1 and for a registration with an unsupported arity
LuaFuncs ==
    ("lower" :> 2) @@ ("parallelresistance" :> -1) @@ ("inch2centimeter" :> 0)
    @@ ("half" :> 1) @@ ("three" :> 3)

FuncNumArgs(name) == LuaFuncs[name]

\* what the Lua state can answer to a call: a number, a Lua error, or a
\* value that is no number
LuaOutcomes ==
    {[fails |-> FALSE, isnum |-> TRUE, num |-> 2],
     [fails |-> TRUE, isnum |-> FALSE, num |-> 0],
     [fails |-> FALSE, isnum |-> FALSE, num |-> 0]}

\* CallLuaFunc indexes items[0] (numargs 0, 1) and items[1] (numargs 2)
\* before it calls Lua: a runtime panic when items is too short
CallLuaFunc(funcname, items, lua) ==
    LET numargs == LuaFuncs[funcname]
    IN IF (numargs \in {0, 1} /\ Len(items) < 1)
          \/ (numargs = 2 /\ Len(items) < 2)
       THEN Panic
       ELSE IF lua.fails
            THEN NewR(0, <<"failed to exec lua func ", funcname>>)
            ELSE IF ~lua.isnum
                 THEN NewR(0, <<"function did not return a float64">>)
                 ELSE NewR(lua.num, << >>)

-----------------------------------------------------------------------------
(* Items: what the parsers of EvalItem accept (calc.go, util.go) *)

\* strconv.ParseFloat on the decimal literals the model enters
Decimal ==
    ("0" :> 0) @@ ("1" :> 1) @@ ("2" :> 2) @@ ("-1" :> -1) @@ ("3" :> 3)
    @@ ("4" :> 4) @@ ("5" :> 5) @@ ("6" :> 6) @@ ("7" :> 7) @@ ("10" :> 10)
    @@ ("15" :> 15) @@ ("16" :> 16) @@ ("19" :> 19) @@ ("20" :> 20) @@ ("50" :> 50)
    @@ ("100" :> 100) @@ ("400" :> 400)

ParseFloat(item) ==
    IF item \in DOMAIN Decimal
    THEN [ok |-> TRUE, num |-> Decimal[item]]
    ELSE [ok |-> FALSE, num |-> 0]

\* fmt.Sscanf(item, "%d:%d", &hour, &min)
TimeItems == ("2:00" :> <<2, 0>>) @@ ("1:60" :> <<1, 60>>)

\* fmt.Sscanf(item, "0x%x", &i)
HexItems == ("0x2" :> 2) @@ ("0x10" :> 16)

Constants == {"Pi"}

const2num(name) == IF name = "Pi" THEN MathPi ELSE 0

\* Register: ^([<>])([A-Z][A-Z0-9]*) and its two submatches
RegisterItems ==
    (">X" :> <<">", "X">>) @@ ("<X" :> <<"<", "X">>)
    @@ (">TEN" :> <<">", "TEN">>) @@ ("<TEN" :> <<"<", "TEN">>)

\* the command tables with their aliases (command.go)
Commands == {"exit", "quit", "manual"}
ShowCommands == {"dump", "history", "vars", "hex", "h", "p", "v"}
StackCommands ==
    {"clear", "shift", "reverse", "swap", "undo", "dup", "edit", "c", "u"}
SettingsCommands ==
    {"debug", "nodebug", "batch", "nobatch", "showstack", "noshowstack",
     "d", "b", "s"}

\* what the editor session of the edit command can leave behind: the
\* editor could not be run, or the file holds these numbers
EditOutcomes ==
    {[fails |-> TRUE, nums |-> << >>], [fails |-> FALSE, nums |-> << >>],
     [fails |-> FALSE, nums |-> <<2, 1>>]}

\* everything outside the program an item can depend on
Envs == [lua : LuaOutcomes, edit : EditOutcomes]

-----------------------------------------------------------------------------
(* Calc (calc.go) *)

NoVars == [name \in {} |-> 0]

NewCalc ==
    [stack |-> NewStack, debug |-> FALSE, batch |-> FALSE,
     showstack |-> FALSE, intermediate |-> FALSE, notdone |-> FALSE,
     history |-> << >>, Vars |-> NoVars]

exists(m, key) == key \in DOMAIN m

Error(m) == <<"Error: ">> \o m

\* what evaluating one item leaves: the Calc object, the error returned,
\* the lines printed, the results Result() printed, and how control left
\* ("ok": returned, "panic": runtime panic, "exit": os.Exit)
Returned(c, e, msgs, results) ==
    [c |-> c, err |-> e, out |-> msgs, printed |-> results, status |-> "ok"]

Nil(c) == Returned(c, << >>, << >>, << >>)
Said(c, msg) == Returned(c, << >>, <<msg>>, << >>)
Failed(c, e) == Returned(c, e, << >>, << >>)
Panicked(c) ==
    [c |-> c, err |-> << >>, out |-> << >>, printed |-> << >>,
     status |-> "panic"]
Exited(c) ==
    [c |-> c, err |-> << >>, out |-> << >>, printed |-> << >>,
     status |-> "exit"]

ToggleDebug(c) ==
    [c EXCEPT !.debug = ~@, !.stack = StackToggleDebug(@)]

ToggleBatch(c) == [c EXCEPT !.batch = ~@]

ToggleShow(c) == [c EXCEPT !.showstack = ~@]

\* a history entry: "<args> <op> -> <res>"
SetHistory(c, op, args, res) ==
    [c EXCEPT !.history = Append(@, [args |-> args, op |-> op, res |-> res])]

\* a Result that prints whether or not the line goes on
ResultAlways(c) ==
    IF StackLen(c.stack) = 0 THEN Panicked(c)
    ELSE Returned(c, << >>, << >>, Last(c.stack, 1))

\* Result prints the top of the stack when this is the last item of the
\* line or intermediate results are asked for; Last()[0] on an empty stack
\* is a runtime panic
Result(c) ==
    IF StackLen(c.stack) = 0 THEN Panicked(c)
    ELSE Returned(c, << >>, << >>,
                  IF c.intermediate \/ ~c.notdone
                  THEN Last(c.stack, 1) ELSE << >>)

\* a lookup that knows the normal table only
FuncallOfNormal(c, funcname) ==
    IF exists(Funcalls, funcname)
    THEN [nil |-> FALSE, Expectargs |-> Funcalls[funcname], Func |-> "normal"]
    ELSE [nil |-> TRUE, Expectargs |-> 0, Func |-> "none"]

\* the Funcall DoFuncall looks up: in the batch table while batch mode is
\* on, in the normal table otherwise; nil when the table has no such name
FuncallOf(c, funcname) ==
    LET table == IF c.batch THEN BatchFuncalls ELSE Funcalls
    IN IF exists(table, funcname)
       THEN [nil |-> FALSE, Expectargs |-> table[funcname],
             Func |-> IF c.batch THEN "batch" ELSE "normal"]
       ELSE [nil |-> TRUE, Expectargs |-> 0, Func |-> "none"]

\* function.Func(args)
CallFunc(function, funcname, args) ==
    IF function.Func = "batch" THEN BatchFunc(funcname, args)
    ELSE NormalFunc(funcname, args)

\* a DoFuncall that takes the backup before it calls the function
DoFuncallEarlyBackup(c, funcname) ==
    LET function == FuncallOf(c, funcname)
        batch == function.Expectargs = -1
        saved == Backup(c.stack)
    IN IF function.nil
       THEN Failed(c, Error(<<"function not defined but in completion list">>))
       ELSE IF ~batch /\ StackLen(c.stack) < function.Expectargs
            THEN Failed(c, <<"stack doesn't provide enough arguments">>)
       ELSE LET args == IF batch THEN All(c.stack)
                        ELSE Last(c.stack, function.Expectargs)
                funcresult == CallFunc(function, funcname, args)
            IN IF funcresult.panic THEN Panicked(c)
               ELSE IF funcresult.Err # << >>
                    THEN Failed([c EXCEPT !.stack = saved], funcresult.Err)
               ELSE LET popped == IF batch THEN Clear(saved)
                                  ELSE Shift(saved, function.Expectargs)
                        pushed == Push(popped, funcresult.Res)
                    IN Nil(SetHistory([c EXCEPT !.stack = pushed],
                                      funcname, args, funcresult.Res))

\* a DoFuncall that uses 0 in place of the stack items that are missing
DoFuncallZeroFill(c, funcname) ==
    LET function == FuncallOf(c, funcname)
        batch == function.Expectargs = -1
    IN IF function.nil
       THEN Failed(c, Error(<<"function not defined but in completion list">>))
       ELSE LET have == Last(c.stack, function.Expectargs)
                args == IF batch THEN All(c.stack)
                        ELSE [i \in 1..(function.Expectargs - Len(have)) |-> 0]
                             \o have
                funcresult == CallFunc(function, funcname, args)
            IN IF funcresult.panic THEN Panicked(c)
               ELSE IF funcresult.Err # << >> THEN Failed(c, funcresult.Err)
               ELSE LET saved == Backup(c.stack)
                        popped == IF batch THEN Clear(saved)
                                  ELSE Shift(saved, function.Expectargs)
                        pushed == Push(popped, funcresult.Res)
                    IN Nil(SetHistory([c EXCEPT !.stack = pushed],
                                      funcname, args, funcresult.Res))

\* a DoFuncall that takes the backup after it removed the operands
DoFuncallLateBackup(c, funcname) ==
    LET function == FuncallOf(c, funcname)
        batch == function.Expectargs = -1
    IN IF function.nil
       THEN Failed(c, Error(<<"function not defined but in completion list">>))
       ELSE IF ~batch /\ StackLen(c.stack) < function.Expectargs
            THEN Failed(c, <<"stack doesn't provide enough arguments">>)
       ELSE LET args == IF batch THEN All(c.stack)
                        ELSE Last(c.stack, function.Expectargs)
                funcresult == CallFunc(function, funcname, args)
            IN IF funcresult.panic THEN Panicked(c)
               ELSE IF funcresult.Err # << >> THEN Failed(c, funcresult.Err)
               ELSE LET popped == IF batch THEN Clear(c.stack)
                                  ELSE Shift(c.stack, function.Expectargs)
                        pushed == Push(Backup(popped), funcresult.Res)
                    IN Nil(SetHistory([c EXCEPT !.stack = pushed],
                                      funcname, args, funcresult.Res))

\* Execute a math function
DoFuncall(c, funcname) ==
    LET function == FuncallOf(c, funcname)
        batch == function.Expectargs = -1
    IN IF function.nil
       THEN Failed(c, Error(<<"function not defined but in completion list">>))
       ELSE IF ~batch /\ StackLen(c.stack) < function.Expectargs
            THEN Failed(c, <<"stack doesn't provide enough arguments">>)
       ELSE LET args == IF batch THEN All(c.stack)
                        ELSE Last(c.stack, function.Expectargs)
                funcresult == CallFunc(function, funcname, args)
            IN IF funcresult.panic THEN Panicked(c)
               ELSE IF funcresult.Err # << >> THEN Failed(c, funcresult.Err)
               ELSE LET saved == Backup(c.stack)
                        popped == IF batch THEN Clear(saved)
                                  ELSE Shift(saved, function.Expectargs)
                        pushed == Push(popped, funcresult.Res)
                    IN Nil(SetHistory([c EXCEPT !.stack = pushed],
                                      funcname, args, funcresult.Res))

\* Result() after a handler that returned: its print is added, its panic
\* takes over
ThenResult(r) ==
    IF r.status # "ok" THEN r
    ELSE LET res == Result(r.c)
         IN IF res.status # "ok" THEN res
            ELSE [r EXCEPT !.printed = @ \o res.printed]

\* an error of DoFuncall that takes the stack with it
OrErrorClearing(r) ==
    IF r.err # << >>
    THEN Failed([r.c EXCEPT !.stack = Clear(@)], Error(r.err))
    ELSE ThenResult(r)

\* what EvalItem makes of DoFuncall: its error is returned as Error(...),
\* its result shown
OrError(r) ==
    IF r.err # << >> THEN Failed(r.c, Error(r.err)) ELSE ThenResult(r)

\* an EvalLuaFunction that pushes the result for zero arguments as well
EvalLuaFunctionPushing(c, funcname, lua) ==
    LET numargs == FuncNumArgs(funcname)
        called ==
            CASE numargs \in {0, 1} ->
                   CallLuaFunc(funcname, Last(c.stack, 1), lua)
              [] numargs = 2 -> CallLuaFunc(funcname, Last(c.stack, 2), lua)
              [] numargs = -1 -> CallLuaFunc(funcname, All(c.stack), lua)
              [] OTHER -> NewR(0, <<"invalid number of argument requested">>)
    IN IF called.panic THEN Panicked(c)
       ELSE IF called.Err # << >> THEN Said(c, called.Err)
       ELSE LET saved == Backup(c.stack)
                after ==
                    CASE numargs = 0 -> Push(saved, called.Res)
                      [] numargs = 1 -> Push(Pop(saved), called.Res)
                      [] numargs = 2 -> Push(Pop(Pop(saved)), called.Res)
                      [] numargs = -1 -> Push(Clear(saved), called.Res)
                entry == [args |-> IF numargs = -1 THEN << >>
                                   ELSE Mirror(Last(saved, numargs)),
                          op |-> funcname, res |-> called.Res]
                logged == IF numargs = 0 /\ Len(Last(saved, 1)) # 1
                          THEN c.history ELSE Append(c.history, entry)
            IN ThenResult(Nil([c EXCEPT !.stack = after, !.history = logged]))

\* a user provided Lua function; a failure is printed, not returned
EvalLuaFunction(c, funcname, lua) ==
    LET numargs == FuncNumArgs(funcname)
        called ==
            CASE numargs \in {0, 1} ->
                   CallLuaFunc(funcname, Last(c.stack, 1), lua)
              [] numargs = 2 -> CallLuaFunc(funcname, Last(c.stack, 2), lua)
              [] numargs = -1 -> CallLuaFunc(funcname, All(c.stack), lua)
              [] OTHER -> NewR(0, <<"invalid number of argument requested">>)
    IN IF called.panic THEN Panicked(c)
       ELSE IF called.Err # << >> THEN Said(c, called.Err)
       ELSE LET saved == Backup(c.stack)
                after ==
                    CASE numargs = 0 -> saved
                      [] numargs = 1 -> Push(Pop(saved), called.Res)
                      [] numargs = 2 -> Push(Pop(Pop(saved)), called.Res)
                      [] numargs = -1 -> Push(Clear(saved), called.Res)
                entry == [args |-> IF numargs = -1 THEN << >>
                                   ELSE Mirror(Last(saved, numargs)),
                          op |-> funcname, res |-> called.Res]
                logged == IF numargs = 0 /\ Len(Last(saved, 1)) # 1
                          THEN c.history ELSE Append(c.history, entry)
            IN ThenResult(Nil([c EXCEPT !.stack = after, !.history = logged]))

\* a PutVar that takes the item off the stack
PutVarPopping(c, name) ==
    LET last == Last(c.stack, 1)
    IN IF Len(last) = 1
       THEN Nil([c EXCEPT !.Vars = (name :> last[1]) @@ @, !.stack = Pop(@)])
       ELSE Said(c, <<"empty stack">>)

PutVar(c, name) ==
    LET last == Last(c.stack, 1)
    IN IF Len(last) = 1
       THEN Nil([c EXCEPT !.Vars = (name :> last[1]) @@ @])
       ELSE Said(c, <<"empty stack">>)

GetVar(c, name) ==
    IF exists(c.Vars, name)
    THEN Nil([c EXCEPT !.stack = Push(Backup(@), c.Vars[name])])
    ELSE Said(c, <<"variable doesn't exist">>)

\* a swap that takes the backup before it looks at the depth
CommandSwapBackingUp(c) ==
    IF StackLen(c.stack) < 2
    THEN Said([c EXCEPT !.stack = Backup(@)], <<"stack too small, can't swap">>)
    ELSE Nil([c EXCEPT !.stack = Swap(Backup(@))])

CommandSwap(c) ==
    IF StackLen(c.stack) < 2 THEN Said(c, <<"stack too small, can't swap">>)
    ELSE Nil([c EXCEPT !.stack = Swap(Backup(@))])

CommandDup(c) ==
    LET item == Last(c.stack, 1)
    IN IF Len(item) = 1
       THEN Nil([c EXCEPT !.stack = Push(Backup(@), item[1])])
       ELSE Said(c, <<"stack empty">>)

RECURSIVE PushAll(_, _)
PushAll(s, nums) ==
    IF nums = << >> THEN s ELSE PushAll(Push(s, nums[1]), Tail(nums))

\* edit: the stack goes to a file, the editor runs, the numbers of the file
\* come back; every failure after the backup returns with the stack as is
CommandEdit(c, edit) ==
    IF StackLen(c.stack) = 0 THEN Said(c, <<"empty stack">>)
    ELSE IF edit.fails
         THEN Said([c EXCEPT !.stack = Backup(@)], <<"could not run editor command">>)
         ELSE Nil([c EXCEPT !.stack = PushAll(Clear(Backup(@)), edit.nums)])

\* stack commands of which clear, shift and reverse take no backup of an
\* empty stack
StackCommandSparing(c, item, edit) ==
    CASE item \in {"clear", "c", "shift", "reverse"} /\ StackLen(c.stack) = 0 ->
           Nil(c)
      [] item \in {"clear", "c"} /\ StackLen(c.stack) > 0 ->
           Nil([c EXCEPT !.stack = Clear(Backup(@))])
      [] item = "shift" /\ StackLen(c.stack) > 0 ->
           Nil([c EXCEPT !.stack = Shift(Backup(@), 1)])
      [] item = "reverse" /\ StackLen(c.stack) > 0 ->
           Nil([c EXCEPT !.stack = Reverse(Backup(@))])
      [] item = "swap" -> CommandSwap(c)
      [] item \in {"undo", "u"} ->
           IF RestoreRefused(c.stack) THEN Said(c, <<"error: stack is empty.">>)
           ELSE Nil([c EXCEPT !.stack = Restore(@)])
      [] item = "dup" -> CommandDup(c)
      [] item = "edit" -> CommandEdit(c, edit)

\* the stack manipulation commands
StackCommand(c, item, edit) ==
    CASE item \in {"clear", "c"} -> Nil([c EXCEPT !.stack = Clear(Backup(@))])
      [] item = "shift" -> Nil([c EXCEPT !.stack = Shift(Backup(@), 1)])
      [] item = "reverse" -> Nil([c EXCEPT !.stack = Reverse(Backup(@))])
      [] item = "swap" -> CommandSwap(c)
      [] item \in {"undo", "u"} ->
           IF RestoreRefused(c.stack) THEN Said(c, <<"error: stack is empty.">>)
           ELSE Nil([c EXCEPT !.stack = Restore(@)])
      [] item = "dup" -> CommandDup(c)
      [] item = "edit" -> CommandEdit(c, edit)

\* the toggles
SettingsCommand(c, item) ==
    CASE item \in {"debug", "d"} -> Said(ToggleDebug(c), <<"debugging set">>)
      [] item = "nodebug" ->
           Nil([c EXCEPT !.debug = FALSE, !.stack.debug = FALSE])
      [] item \in {"batch", "b"} -> Said(ToggleBatch(c), <<"batchmode set">>)
      [] item = "nobatch" -> Nil([c EXCEPT !.batch = FALSE])
      [] item \in {"showstack", "s"} -> Nil(ToggleShow(c))
      [] item = "noshowstack" -> Nil([c EXCEPT !.showstack = FALSE])

\* a hex that takes the item it shows off the stack
ShowCommandPopping(c, item) ==
    IF item = "hex" /\ StackLen(c.stack) > 0
    THEN Said([c EXCEPT !.stack = Pop(@)], <<item>>)
    ELSE Said(c, <<item>>)

\* the display commands only print: dump, history and vars always, hex
\* (Len() and Last()) when the stack holds an item
ShowCommand(c, item) ==
    IF item = "hex" /\ StackLen(c.stack) = 0 THEN Nil(c)
    ELSE Said(c, <<item>>)

\* exit and quit leave the process, manual opens the pager
Command(c, item) ==
    IF item \in {"exit", "quit"} THEN Exited(c) ELSE Said(c, <<item>>)

\* the value of an HH:MM item: hour + min / 60
TimeValue(item) ==
    LET hm == TimeItems[item]
        frac == ExactDiv(hm[2], 60)
    IN IF frac = Inexact THEN Inexact ELSE hm[1] + frac

\* a push that takes no backup
PushItemNoBackup(c, num) == Nil([c EXCEPT !.stack = Push(@, num)])

PushItem(c, num) == Nil([c EXCEPT !.stack = Push(Backup(@), num)])

\* a name of the normal table: the function is called, its error returned
\* as Error(...), its result shown
EvalFuncallItem(c, item) == OrError(DoFuncall(c, item))

\* a batch item that is not held back while batch mode is off
EvalBatchItemUngated(c, item) == EvalFuncallItem(c, item)

\* a name of the batch table only: refused unless batch mode is on
EvalBatchItem(c, item) ==
    IF ~c.batch THEN Failed(c, Error(<<"only supported in batch mode">>))
    ELSE EvalFuncallItem(c, item)

EvalRegisterItem(c, item) ==
    IF RegisterItems[item][1] = ">"
    THEN PutVar(c, RegisterItems[item][2])
    ELSE GetVar(c, RegisterItems[item][2])

\* an item no class accepts is let through without an error
UnknownItemAccepted(c, item) == Nil(c)

\* the default of EvalItem's last switch
UnknownItem(c, item) == Failed(c, Error(<<"unknown command or operator">>))

\* EvalItem: the first class that accepts the item decides
EvalItem(c, item, env) ==
    IF ParseFloat(item).ok THEN PushItem(c, ParseFloat(item).num)
    ELSE IF item \in DOMAIN TimeItems THEN PushItem(c, TimeValue(item))
    ELSE IF item \in DOMAIN HexItems THEN PushItem(c, HexItems[item])
    ELSE IF item \in Constants THEN PushItem(c, const2num(item))
    ELSE IF exists(Funcalls, item) THEN EvalFuncallItem(c, item)
    ELSE IF exists(BatchFuncalls, item) THEN EvalBatchItem(c, item)
    ELSE IF exists(LuaFuncs, item) THEN EvalLuaFunction(c, item, env.lua)
    ELSE IF item \in DOMAIN RegisterItems THEN EvalRegisterItem(c, item)
    ELSE IF item \in Commands THEN Command(c, item)
    ELSE IF item \in ShowCommands THEN ShowCommand(c, item)
    ELSE IF item \in StackCommands THEN StackCommand(c, item, env.edit)
    ELSE IF item \in SettingsCommands THEN SettingsCommand(c, item)
    ELSE IF item \in {"?", "help"} THEN Said(c, <<"help">>)
    ELSE UnknownItem(c, item)

-----------------------------------------------------------------------------
(* Eval: one line, item by item (calc.go), called from the loop of Main *)

\* the class of an item, in EvalItem's order of precedence
ItemClass(item) ==
    IF ParseFloat(item).ok \/ item \in DOMAIN TimeItems
       \/ item \in DOMAIN HexItems \/ item \in Constants THEN "number"
    ELSE IF exists(Funcalls, item) THEN "funcall"
    ELSE IF exists(BatchFuncalls, item) THEN "batchfuncall"
    ELSE IF exists(LuaFuncs, item) THEN "lua"
    ELSE IF item \in DOMAIN RegisterItems THEN "register"
    ELSE IF item \in StackCommands THEN "stackcommand"
    ELSE IF item \in Commands \cup ShowCommands \cup SettingsCommands
                     \cup {"?", "help"} THEN "command"
    ELSE "unknown"

\* the items the sessions of the model are made of
Items ==
    {"0", "1", "2", "-1", "Pi", "0x2", "2:00",
     "+", "-", "/", "<", ">", "sqrt",
     "sum", "median", "mean", "min", "max",
     "lower", "parallelresistance", "inch2centimeter", "half", "three",
     ">X", "<X",
     "clear", "shift", "reverse", "swap", "undo", "dup", "edit",
     "batch", "nobatch", "showstack", "dump", "hex", "manual", "help", "exit",
     "history", "vars", "foo", "<x"}

\* the items that can change the stack, and undo
Undoable ==
    {i \in Items : ItemClass(i) \in {"number", "funcall", "batchfuncall",
                                     "lua", "stackcommand"}} \cup {"<X"}

\* the lines entered: every item alone; the stack changing items followed
\* by undo; lines that fill the stack; the lines of the test suite and of
\* the documentation; an unknown item followed by a number; a math
\* function, a number and undo; numbers and median; registers
Lines ==
    {<<i>> : i \in Items} \cup {<<i, "undo">> : i \in Undoable}
    \cup {<<"2", "1">>, <<"1", "0">>, <<"1", "-1">>, <<"0", "2", "1">>,
          <<"batch", "2", "1">>, <<"2", ">X", "1">>}
    \cup {<<"5", "0", "/">>, <<"100", "50", "-">>, <<"2", "16", "swap", "/">>,
          <<"400", "20", "%-">>, <<"3", "5", "6", "+">>}
    \cup {<<"foo", "1">>, << >>, <<"2", "1", "<x">>}
    \cup {<<"3", "5", "+", "2", "-">>, <<"3", "5", "+", "2">>}
    \cup {<<"16", "sqrt">>, <<"1", "2", "clear", "clear", "undo">>}
    \cup {<<"+", "2", "undo">>, <<"-", "2", "undo">>}
    \cup {<<"1", "2", "3", "4", "5", "median">>, <<"3", "1", "2", "median">>,
          <<"7", "1", "4", "2", "6", "3", "5", "median">>}
    \cup {<<"10", ">TEN", "clear", "5", "<TEN", "*">>,
          <<"1", ">X", "2", ">X", "clear", "<X">>}

\* a result that is no integer or that passes MaxNum is not followed
InModel(c) ==
    /\ \A i \in 1..Len(c.stack.linklist) :
          LET x == c.stack.linklist[i]
          IN x \in {NaN, MathPi} \/ (x >= -MaxNum /\ x <= MaxNum)

\* "stack: ..." after the last item of the line
ShowStack(c) == IF c.showstack THEN <<<<"stack: ">>>> ELSE << >>

\* a line as typed is the sequence of its words (a word is a run of
\* characters that are neither white space nor "#"), with " " for a run of
\* white space and "#" for the comment mark; Join(items) is the line with
\* one blank between the items
RECURSIVE Join(_)
Join(items) ==
    IF Len(items) <= 1 THEN items
    ELSE <<Head(items), " ">> \o Join(Tail(items))

\* the lines of TestCommentsAndWhitespace, and blank lines
CommentLines ==
    {<<" ", "5">>, <<"5", " ">>, <<" ", "5", " ">>,
     <<" ", "#", " ", "19">>, <<"#", "19">>,
     <<"5", " ", "#", " ", "19">>, <<"5", "#", "19">>,
     <<" ">>, <<"#">>, <<"5", "#", "19", " ", "#", "2">>}

Texts == {Join(l) : l \in Lines} \cup CommentLines

\* only the marks are taken out of the line
CommentMarksOnly(t) == SelectSeq(t, LAMBDA x : x # "#")

\* Comment.ReplaceAllString(t, ""): `#.*` matches from the first "#" to the
\* end of the line
CommentReplaceAll(t) ==
    IF \E i \in 1..Len(t) : t[i] = "#"
    THEN LET first == CHOOSE i \in 1..Len(t) :
                         t[i] = "#" /\ \A j \in 1..(i - 1) : t[j] # "#"
         IN SubSeq(t, 1, first - 1)
    ELSE t

\* strings.TrimSpace
RECURSIVE TrimSpace(_)
TrimSpace(t) ==
    IF t = << >> THEN t
    ELSE IF Head(t) = " " THEN TrimSpace(Tail(t))
    ELSE IF t[Len(t)] = " " THEN TrimSpace(SubSeq(t, 1, Len(t) - 1))
    ELSE t

IsWord(x) == x # " "

\* Space.Split(t, -1): the pieces between the runs of white space; the
\* empty string gives one empty piece
SpaceSplit(t) == IF t = << >> THEN <<"">> ELSE SelectSeq(t, IsWord)

\* Main hands a line to Eval; a line that is empty without its comment and
\* the white space around it is returned from at once
Eval(t) ==
    /\ status = "idle"
    /\ nlines < MaxLines
    /\ nlines' = nlines + 1
    /\ text' = t
    /\ \E l \in {TrimSpace(CommentReplaceAll(t))} :
          /\ line' = IF l = << >> THEN << >> ELSE SpaceSplit(l)
          /\ status' = IF l = << >> THEN "done" ELSE "eval"
    /\ pos' = 0
    /\ err' = << >>
    /\ out' = << >>
    /\ printed' = << >>
    /\ start' = calc
    /\ prev' = calc
    /\ UNCHANGED <<calc, stackvars, govars>>

\* one round of Eval's loop: notdone is set, the item evaluated; an error
\* ends the loop and is returned
Step(env) ==
    \E r \in {EvalItem([calc EXCEPT !.notdone = (pos + 1 < Len(line))],
                        line[pos + 1], env)} :
       \E last \in {r.err # << >> \/ pos + 1 = Len(line)} :
          /\ InModel(r.c)
          /\ calc' = r.c
          /\ prev' = calc
          /\ pos' = pos + 1
          /\ err' = r.err
          /\ printed' = printed \o r.printed
          /\ out' = IF r.status = "ok" /\ r.err = << >> /\ last
                    THEN r.out \o ShowStack(r.c) ELSE r.out
          /\ status' = IF r.status # "ok" THEN r.status
                       ELSE IF last THEN "done" ELSE "eval"
          /\ UNCHANGED <<text, line, start, nlines, stackvars, govars>>

InLoop(class) ==
    /\ status = "eval"
    /\ pos < Len(line)
    /\ ItemClass(line[pos + 1]) = class

NoEnv == CHOOSE env \in Envs : TRUE

EvalNumber == InLoop("number") /\ Step(NoEnv)
EvalFuncall == InLoop("funcall") /\ Step(NoEnv)
EvalBatchFuncall == InLoop("batchfuncall") /\ Step(NoEnv)
EvalLua ==
    /\ InLoop("lua")
    /\ \E lua \in LuaOutcomes : Step([NoEnv EXCEPT !.lua = lua])
EvalRegister == InLoop("register") /\ Step(NoEnv)
EvalStackCommand ==
    /\ InLoop("stackcommand")
    /\ \E edit \in EditOutcomes : Step([NoEnv EXCEPT !.edit = edit])
EvalCommand == InLoop("command") /\ Step(NoEnv)
EvalUnknown == InLoop("unknown") /\ Step(NoEnv)

\* Eval has returned: Main prints the error and reads the next line
Return ==
    /\ status = "done"
    /\ status' = "idle"
    /\ text' = << >>
    /\ line' = << >>
    /\ pos' = 0
    /\ err' = << >>
    /\ out' = << >>
    /\ printed' = << >>
    /\ start' = calc
    /\ prev' = calc
    /\ UNCHANGED <<calc, nlines, stackvars, govars>>

\* the Calc object after Main was given every item as a line of its own:
\* Eval is called once per item, an error ends that call only
RECURSIVE EachOnItsOwn(_, _)
EachOnItsOwn(c, items) ==
    IF items = << >> THEN c
    ELSE LET r == EvalItem([c EXCEPT !.notdone = FALSE], items[1], NoEnv)
         IN IF r.status # "ok" THEN r.c
            ELSE EachOnItsOwn(r.c, Tail(items))

\* the Calc object as Main hands it to the loop: -i asks for intermediate
\* results, and no command changes that later
Flagged == {[NewCalc EXCEPT !.intermediate = i] : i \in BOOLEAN}

\* the goroutines that call the Stack; none is in a method at first
Threads == {1, 2}
Idle == [op |-> "none", at |-> "idle"]
NoGo == [t \in Threads |-> Idle]
NoLocal == [t \in Threads |-> << >>]

\* no call made yet
NoCall == [op |-> "new", arg |-> 0, ret |-> << >>]

Init ==
    /\ stk = NewStack
    /\ was = NewStack
    /\ call = NoCall
    /\ backedup = FALSE
    /\ ncalls = 0
    /\ calc \in Flagged
    /\ text = << >>
    /\ line = << >>
    /\ pos = 0
    /\ err = << >>
    /\ status = "idle"
    /\ out = << >>
    /\ printed = << >>
    /\ start = calc
    /\ prev = calc
    /\ nlines = 0
    /\ pc = NoGo
    /\ mutex = 0
    /\ local = NoLocal

Next ==
    \/ \E t \in Texts : Eval(t)
    \/ EvalNumber
    \/ EvalFuncall
    \/ EvalBatchFuncall
    \/ EvalLua
    \/ EvalRegister
    \/ EvalStackCommand
    \/ EvalCommand
    \/ EvalUnknown
    \/ Return

Spec == Init /\ [][Next]_vars

-----------------------------------------------------------------------------
(* The Stack on its own, used the way stack_test.go uses it *)

\* the stack after Push(1), Push(2) .. Push(n) on a new Stack
RECURSIVE Pushed(_)
Pushed(n) == IF n = 0 THEN NewStack ELSE Push(Pushed(n - 1), n)

\* one call: the stack it leaves and what it returned or printed
Called(op, arg, s, ret) ==
    /\ ncalls < MaxCalls
    /\ ncalls' = ncalls + 1
    /\ was' = stk
    /\ stk' = s
    /\ call' = [op |-> op, arg |-> arg, ret |-> ret]
    /\ backedup' = (backedup \/ op = "backup")
    /\ UNCHANGED <<calcvars, govars>>

StackPush == \E item \in {7, 8} : Called("push", item, Push(stk, item), << >>)
StackPop == Called("pop", 0, Pop(stk), <<PopValue(stk)>>)
\* Shift() and Shift(n); a count beyond the length is StackShiftPanic
StackShift ==
    \E count \in 1..2 :
       /\ ~ShiftPanics(stk, count)
       /\ Called("shift", count, Shift(stk, count), << >>)
\* Shift(n) with more to remove than the list holds: the list runs empty
\* inside the loop, Remove(nil) is a runtime panic and no call follows
StackShiftPanic ==
    \E count \in 1..2 :
       /\ ShiftPanics(stk, count)
       /\ ncalls < MaxCalls
       /\ ncalls' = MaxCalls
       /\ was' = stk
       /\ stk' = Shift(stk, count)
       /\ call' = [op |-> "shift", arg |-> count, ret |-> <<"panic">>]
       /\ UNCHANGED <<backedup, calcvars, govars>>
StackSwap == Called("swap", 0, Swap(stk), << >>)
StackLast == \E num \in 1..2 : Called("last", num, stk, Last(stk, num))
StackAll == Called("all", 0, stk, All(stk))
StackLength == Called("len", 0, stk, <<StackLen(stk)>>)
StackClear == Called("clear", 0, Clear(stk), << >>)
StackBackup == Called("backup", 0, Backup(stk), << >>)
StackRestore ==
    Called("restore", 0, Restore(stk),
           IF RestoreRefused(stk) THEN <<"error: stack is empty.">> ELSE << >>)
StackReverse == Called("reverse", 0, Reverse(stk), << >>)

StackInit ==
    /\ \E n \in 0..MaxDepth : stk = Pushed(n)
    /\ was = NewStack
    /\ call = NoCall
    /\ backedup = FALSE
    /\ ncalls = 0
    /\ calc = NewCalc
    /\ text = << >>
    /\ line = << >>
    /\ pos = 0
    /\ err = << >>
    /\ status = "idle"
    /\ out = << >>
    /\ printed = << >>
    /\ start = NewCalc
    /\ prev = NewCalc
    /\ nlines = 0
    /\ pc = NoGo
    /\ mutex = 0
    /\ local = NoLocal

StackNext ==
    \/ StackPush
    \/ StackPop
    \/ StackShift
    \/ StackShiftPanic
    \/ StackSwap
    \/ StackLast
    \/ StackAll
    \/ StackLength
    \/ StackClear
    \/ StackBackup
    \/ StackRestore
    \/ StackReverse

StackSpec == StackInit /\ [][StackNext]_vars

-----------------------------------------------------------------------------
(* The Stack called from several goroutines (stack.go) *)

Methods ==
    {"push", "pop", "shift", "swap", "reverse", "clear", "backup", "restore"}

\* a runtime panic ends the program
Crashed == \E t \in Threads : pc[t].at = "panic"

At(t, op, at) == ~Crashed /\ pc[t] = [op |-> op, at |-> at]
Goto(t, at) == pc' = [pc EXCEPT ![t].at = at]

\* the deferred s.mutex.Unlock() as the method returns
Unlocked(t) == pc' = [pc EXCEPT ![t] = Idle] /\ mutex' = 0

\* a goroutine calls a method of the Stack; Clear does not lock
Go(t, op) ==
    /\ ~Crashed
    /\ pc[t] = Idle
    /\ ncalls < MaxCalls
    /\ ncalls' = ncalls + 1
    /\ pc' = [pc EXCEPT ![t] =
                 [op |-> op, at |-> IF op = "clear" THEN "assign" ELSE "lock"]]
    /\ UNCHANGED <<stk, was, call, backedup, mutex, local, calcvars>>

\* s.mutex.Lock()
Lock(t) ==
    /\ ~Crashed
    /\ pc[t].at = "lock"
    /\ mutex = 0
    /\ mutex' = t
    /\ Goto(t, CASE pc[t].op = "push" -> "bump"
                  [] pc[t].op = "swap" -> "check"
                  [] OTHER -> "body")
    /\ UNCHANGED <<stk, was, call, backedup, ncalls, local, calcvars>>

\* Push: s.Bump()
PushBump(t) ==
    /\ At(t, "push", "bump")
    /\ stk' = Bump(stk)
    /\ Goto(t, "pushback")
    /\ UNCHANGED <<was, call, backedup, ncalls, mutex, local, calcvars>>

\* Push: s.linklist.PushBack(item)
PushBack(t) ==
    /\ At(t, "push", "pushback")
    /\ \E item \in {7, 8} : stk' = [stk EXCEPT !.linklist = Append(@, item)]
    /\ Unlocked(t)
    /\ UNCHANGED <<was, call, backedup, ncalls, local, calcvars>>

\* Swap: if s.linklist.Len() < 2 { return }
SwapCheck(t) ==
    /\ At(t, "swap", "check")
    /\ IF StackLen(stk) < 2 THEN Unlocked(t)
       ELSE Goto(t, "removeA") /\ UNCHANGED mutex
    /\ UNCHANGED <<stk, was, call, backedup, ncalls, local, calcvars>>

\* Swap: x := s.linklist.Back(); s.linklist.Remove(x), for prevA and then
\* for prevB; Back() of an empty list is nil and Remove(nil) a runtime panic
SwapRemove(t, at, next) ==
    /\ At(t, "swap", at)
    /\ IF StackLen(stk) = 0
       THEN /\ pc' = [pc EXCEPT ![t].at = "panic"]
            /\ mutex' = 0
            /\ UNCHANGED <<stk, local>>
       ELSE /\ local' = [local EXCEPT ![t] = Append(@, PopValue(stk))]
            /\ stk' = [stk EXCEPT !.linklist = SubSeq(@, 1, Len(@) - 1)]
            /\ Goto(t, next)
            /\ UNCHANGED mutex
    /\ UNCHANGED <<was, call, backedup, ncalls, calcvars>>

SwapRemoveA(t) == SwapRemove(t, "removeA", "removeB")
SwapRemoveB(t) == SwapRemove(t, "removeB", "pushA")

\* Swap: s.linklist.PushBack(prevA.Value)
SwapPushA(t) ==
    /\ At(t, "swap", "pushA")
    /\ stk' = [stk EXCEPT !.linklist = Append(@, local[t][1])]
    /\ Goto(t, "pushB")
    /\ UNCHANGED <<was, call, backedup, ncalls, mutex, local, calcvars>>

\* Swap: s.linklist.PushBack(prevB.Value)
SwapPushB(t) ==
    /\ At(t, "swap", "pushB")
    /\ stk' = [stk EXCEPT !.linklist = Append(@, local[t][2])]
    /\ local' = [local EXCEPT ![t] = << >>]
    /\ Unlocked(t)
    /\ UNCHANGED <<was, call, backedup, ncalls, calcvars>>

\* Pop, Shift(), Reverse, Backup and Restore between Lock and Unlock
Body(t) ==
    /\ ~Crashed
    /\ pc[t].at = "body"
    /\ stk' = CASE pc[t].op = "pop" -> Pop(stk)
                [] pc[t].op = "shift" -> Shift(stk, 1)
                [] pc[t].op = "reverse" -> Reverse(stk)
                [] pc[t].op = "backup" -> Backup(stk)
                [] pc[t].op = "restore" -> Restore(stk)
    /\ Unlocked(t)
    /\ UNCHANGED <<was, call, backedup, ncalls, local, calcvars>>

\* what a write of the list can leave when it races with a method that
\* holds the mutex: the empty list, or any lower part of the list
Raced(s) == {SubSeq(s.linklist, 1, n) : n \in 0..Len(s.linklist)}

\* Clear: s.linklist = list.List{}, with no lock taken
ClearAssign(t) ==
    /\ At(t, "clear", "assign")
    /\ \E l \in (IF mutex = 0 THEN {<< >>} ELSE Raced(stk)) :
          stk' = [stk EXCEPT !.linklist = l]
    /\ pc' = [pc EXCEPT ![t] = Idle]
    /\ UNCHANGED <<was, call, backedup, ncalls, mutex, local, calcvars>>

GoInit == StackInit

GoNext ==
    \/ \E t \in Threads, op \in Methods : Go(t, op)
    \/ \E t \in Threads : Lock(t)
    \/ \E t \in Threads : PushBump(t)
    \/ \E t \in Threads : PushBack(t)
    \/ \E t \in Threads : SwapCheck(t)
    \/ \E t \in Threads : SwapRemoveA(t)
    \/ \E t \in Threads : SwapRemoveB(t)
    \/ \E t \in Threads : SwapPushA(t)
    \/ \E t \in Threads : SwapPushB(t)
    \/ \E t \in Threads : Body(t)
    \/ \E t \in Threads : ClearAssign(t)

GoSpec == GoInit /\ [][GoNext]_vars

-----------------------------------------------------------------------------
(* Properties *)

\* the last item handed to EvalItem, the list before it and its depth
Handled == pos >= 1 /\ status # "idle"
Came == status \in {"eval", "done"}
Item == line[pos]
StackOf(c) == c.stack.linklist
Before == StackOf(prev)
Depth == Len(Before)
UndoNames == {"undo", "u"}

\* the stack as undo leaves it
UndoOf(c) == StackOf(StackCommand(c, "undo", NoEnv.edit).c)

\* the mutations of the Stack type
Mutations == {"push", "pop", "shift", "swap", "reverse", "clear"}
Mutate(m, s) ==
    CASE m = "push" -> Push(s, 7)
      [] m = "pop" -> Pop(s)
      [] m = "shift" -> Shift(s, 1)
      [] m = "swap" -> Swap(s)
      [] m = "reverse" -> Reverse(s)
      [] m = "clear" -> Clear(s)

\* the stack, its backup and revisions and the history are as before the item
Untouched == calc.stack = prev.stack /\ calc.history = prev.history

DomainFailure ==
    /\ Handled
    /\ Depth >= 2
    /\ \/ Item = "/" /\ Before[Depth] = 0
       \/ Item \in {"<", ">"} /\ Before[Depth] < 0

\* C2: a division by 0 and a shift by a negative amount return an error and
\* leave stack, backup, revisions and history as they were; after "5 0 /" on
\* an empty stack the stack is 5 0.
C2_DomainFailure ==
    /\ DomainFailure =>
          /\ status = "done"
          /\ err # << >>
          /\ Untouched
          /\ ~prev.batch =>
                err = Error(<<IF Item = "/" THEN "division by null"
                              ELSE "negative shift amount">>)
    /\ (Handled /\ pos = 3 /\ line = <<"5", "0", "/">> /\ StackOf(start) = << >>)
          => (err # << >> /\ StackOf(calc) = <<5, 0>>)

C2_Witness ==
    /\ status = "done" /\ pos = 3
    /\ line = <<"5", "0", "/">>
    /\ err = Error(<<"division by null">>)
    /\ StackOf(calc) = <<5, 0>>
    /\ calc.stack.backup = <<5>>
    /\ calc.history = << >>

\* C3 as stated: when an item of the line is unknown, every item after it
\* is evaluated as well, so Eval returns only after the last item.
C3_Continues ==
    (status = "done" /\ \E i \in 1..pos : ItemClass(line[i]) = "unknown")
       => pos = Len(line)

\* Eval has returned the error of the unknown item, the 1 was never pushed
C3_Dropped ==
    /\ status = "done" /\ pos = 1
    /\ line = <<"foo", "1">>
    /\ err = Error(<<"unknown command or operator">>)
    /\ StackOf(calc) = StackOf(start)

\* C4 as stated: no item ever ends in a runtime panic.
C4_NeverRaises == status # "panic"

\* median in batch mode on an empty stack
C4_Raised ==
    /\ status = "panic"
    /\ Item = "median"
    /\ calc.batch
    /\ StackOf(calc) = << >>

\* what the binary operators compute, stated on their own
BinaryOps == {"+", "-", "/", "<", ">", "%-"}
IsResult(op, a, b, r) ==
    CASE op = "+" -> r = a + b
      [] op = "-" -> r = a - b
      [] op = "/" -> r * b = a
      [] op = "<" -> r = IF b >= 64 THEN 0 ELSE a * (2 ^ b)
      [] op = ">" -> r = IF b >= 64 THEN (IF a < 0 THEN -1 ELSE 0)
                       ELSE a \div (2 ^ b)
      [] op = "%-" -> 100 * (a - r) = a * b

\* C5: a binary operator that succeeds on a stack ending in a, b removes the
\* two, pushes op(a, b) with a as the first operand and leaves what is below
\* them; "100 50 -" gives 50, "2 16 swap /" gives 8, "400 20 %-" gives 320.
C5_BinaryOperator ==
    /\ (Handled /\ Came /\ Item \in BinaryOps /\ ~prev.batch /\ err = << >>) =>
          /\ Depth >= 2
          /\ Len(StackOf(calc)) = Depth - 1
          /\ SubSeq(StackOf(calc), 1, Depth - 2) = SubSeq(Before, 1, Depth - 2)
          /\ IsResult(Item, Before[Depth - 1], Before[Depth],
                      StackOf(calc)[Depth - 1])
    /\ (status = "done" /\ pos = Len(line) /\ ~start.batch) =>
          /\ line = <<"100", "50", "-">>
                => StackOf(calc) = StackOf(start) \o <<50>>
          /\ line = <<"2", "16", "swap", "/">>
                => StackOf(calc) = StackOf(start) \o <<8>>
          /\ line = <<"400", "20", "%-">>
                => StackOf(calc) = StackOf(start) \o <<320>>

C5_Witness ==
    /\ status = "done" /\ pos = 4
    /\ line = <<"2", "16", "swap", "/">>
    /\ StackOf(start) = <<1>>
    /\ Before = <<1, 16, 2>>
    /\ StackOf(calc) = <<1, 8>>

\* C6: + is in both tables and the mode decides: in normal mode it replaces
\* the two top items by their sum, in batch mode it replaces the whole stack
\* by the sum of all items; on 3 5 6 that is 3 11 and 14.
C6_PlusByMode ==
    /\ (Handled /\ Came /\ Item = "+" /\ err = << >>) =>
          IF prev.batch
          THEN StackOf(calc) = <<SumOf(Before)>>
          ELSE /\ Depth >= 2
               /\ StackOf(calc) = SubSeq(Before, 1, Depth - 2)
                                    \o <<Before[Depth - 1] + Before[Depth]>>
    /\ (Handled /\ pos = 4 /\ line = <<"3", "5", "6", "+">>
        /\ StackOf(start) = << >>) =>
          /\ err = << >>
          /\ StackOf(calc) = IF start.batch THEN <<14>> ELSE <<3, 11>>

C6_Witness ==
    /\ status = "done" /\ pos = 4
    /\ line = <<"3", "5", "6", "+">>
    /\ calc.batch
    /\ Before = <<3, 5, 6>>
    /\ StackOf(calc) = <<14>>

\* C7: while batch mode is off a name of the batch table only is refused
\* with "only supported in batch mode", and stack, backup, revisions and
\* history stay as they were.
C7_BatchOnly ==
    (Handled /\ ItemClass(Item) = "batchfuncall" /\ ~prev.batch) =>
       /\ status = "done"
       /\ err = Error(<<"only supported in batch mode">>)
       /\ Untouched

C7_Witness ==
    /\ status = "done"
    /\ Handled /\ Item = "sum"
    /\ ~calc.batch
    /\ err = Error(<<"only supported in batch mode">>)
    /\ StackOf(calc) = <<2, 1>>

\* C8: a function of the normal table that expects k items on a stack of
\* fewer than k returns an error, "stack doesn't provide enough arguments"
\* in normal mode, and stack, backup, revisions and history stay as they
\* were: no 0 stands in for the missing item.
C8_TooFewArguments ==
    (Handled /\ ItemClass(Item) = "funcall"
     /\ ~(prev.batch /\ exists(BatchFuncalls, Item))
     /\ Depth < Funcalls[Item]) =>
       /\ status = "done"
       /\ err # << >>
       /\ ~prev.batch =>
             err = Error(<<"stack doesn't provide enough arguments">>)
       /\ Untouched

C8_Witness ==
    /\ status = "done"
    /\ Handled /\ Item = "-"
    /\ ~calc.batch
    /\ err = Error(<<"stack doesn't provide enough arguments">>)
    /\ StackOf(calc) = <<1>>

\* C9 as stated: in batch mode a batch function on an empty stack returns
\* an error and the stack stays empty.
C9_EmptyBatch ==
    (Handled /\ Item \in {"sum", "min", "max", "mean", "median"}
     /\ prev.batch /\ Before = << >>) =>
       /\ status = "done"
       /\ err # << >>
       /\ StackOf(calc) = << >>

\* sum on the empty stack: no error, and 0 is pushed
C9_Pushed ==
    /\ status = "done"
    /\ Handled /\ Item = "sum"
    /\ prev.batch
    /\ Before = << >>
    /\ err = << >>
    /\ StackOf(calc) = <<0>>

\* C10: one level of undo, no redo: a second undo right after an undo
\* leaves the stack as the first left it, and Restore twice is Restore once.
C10_UndoTwice ==
    /\ (Handled /\ pos >= 2 /\ Item \in UndoNames /\ line[pos - 1] \in UndoNames)
          => calc.stack = prev.stack
    /\ Restore(Restore(calc.stack)) = Restore(calc.stack)

C10_Witness ==
    /\ status = "done" /\ pos = 2
    /\ line = <<"undo", "undo">>
    /\ StackOf(start) = <<1>>
    /\ Before = << >>
    /\ StackOf(calc) = << >>

\* the line is a math function, a number and undo, all three evaluated
MathNumberUndo ==
    /\ Handled /\ pos = 3 /\ Len(line) = 3
    /\ ItemClass(line[1]) = "funcall"
    /\ ItemClass(line[2]) = "number"
    /\ line[3] \in UndoNames
    /\ ~start.batch

C12_RestoreWithoutBackup ==
    (call.op = "restore" /\ ~backedup) =>
       /\ call.ret = <<"error: stack is empty.">>
       /\ StackOf([stack |-> stk]) = StackOf([stack |-> was])

\* Push(1), then Restore(): no error, and the list is empty
C12_Emptied ==
    /\ call.op = "restore" /\ ~backedup
    /\ was.linklist = <<1>>
    /\ was.rev = 1
    /\ call.ret = << >>
    /\ stk.linklist = << >>

\* C13 as stated: after Reverse() the list is the mirror image of the list
\* before it, whatever its length.
C13_ReverseMirrors ==
    call.op = "reverse" =>
       /\ Len(stk.linklist) = Len(was.linklist)
       /\ \A i \in 1..Len(was.linklist) :
             stk.linklist[i] = was.linklist[Len(was.linklist) + 1 - i]

\* Reverse() on 1 2 3 4 leaves 4 3 1 2
C13_HalfReversed ==
    /\ call.op = "reverse"
    /\ was.linklist = <<1, 2, 3, 4>>
    /\ stk.linklist = <<4, 3, 1, 2>>

\* C14 as stated: Reverse() on the list a Reverse() left gives the list
\* that was there before the first of the two.
C14_ReverseTwice ==
    call.op = "reverse" => Reverse(stk).linklist = was.linklist

\* Reverse() twice on 1 2 3 4: 4 3 1 2, then 2 1 4 3
C14_NotBack ==
    /\ call.op = "reverse"
    /\ was.linklist = <<1, 2, 3, 4>>
    /\ Reverse(stk).linklist = <<2, 1, 4, 3>>

\* median was called in batch mode on a stack that was not empty
MedianCalled == Handled /\ Item = "median" /\ prev.batch /\ Depth >= 1

C16_MedianOfValues ==
    MedianCalled =>
       /\ Len(StackOf(calc)) = 1
       /\ Cardinality({i \in 1..Depth : Before[i] < StackOf(calc)[1]})
             <= Depth \div 2
       /\ Cardinality({i \in 1..Depth : Before[i] > StackOf(calc)[1]})
             <= Depth \div 2
       /\ line = <<"7", "1", "4", "2", "6", "3", "5", "median">>
             => StackOf(calc) = StackOf(start) \o <<4>>

\* 7 1 4 2 6 3 5 median leaves 2
C16_NotTheMedian ==
    /\ status = "done"
    /\ MedianCalled
    /\ Before = <<7, 1, 4, 2, 6, 3, 5>>
    /\ StackOf(calc) = <<2>>

\* the item is >NAME or <NAME, and the NAME
IsPut == Handled /\ Item \in DOMAIN RegisterItems /\ RegisterItems[Item][1] = ">"
IsGet == Handled /\ Item \in DOMAIN RegisterItems /\ RegisterItems[Item][1] = "<"
Name == RegisterItems[Item][2]

\* C17: >NAME binds NAME to the top of the stack and leaves the stack as
\* it is, a second >NAME replaces the value; no other item changes a
\* variable, so <NAME pushes the value whatever happened to the stack in
\* between; "10 >TEN clear 5 <TEN *" leaves 50.
C17_Registers ==
    /\ (IsPut /\ Depth >= 1) =>
          /\ calc.stack = prev.stack
          /\ DOMAIN calc.Vars = DOMAIN prev.Vars \cup {Name}
          /\ calc.Vars[Name] = Before[Depth]
          /\ \A v \in DOMAIN prev.Vars \ {Name} : calc.Vars[v] = prev.Vars[v]
    /\ (IsGet /\ Name \in DOMAIN prev.Vars) =>
          StackOf(calc) = Before \o <<prev.Vars[Name]>>
    /\ (Handled /\ ~IsPut) => calc.Vars = prev.Vars
    /\ (Handled /\ pos = 6 /\ ~start.batch) =>
          /\ line = <<"10", ">TEN", "clear", "5", "<TEN", "*">>
                => StackOf(calc) = <<50>>
          /\ line = <<"1", ">X", "2", ">X", "clear", "<X">>
                => StackOf(calc) = <<2>>

C17_Witness ==
    /\ status = "done" /\ pos = 6
    /\ line = <<"10", ">TEN", "clear", "5", "<TEN", "*">>
    /\ StackOf(start) = <<2, 1>>
    /\ calc.Vars["TEN"] = 10
    /\ StackOf(calc) = <<50>>

\* the item is an extension function; what the bridge printed when it failed
IsLua == Handled /\ ItemClass(Item) = "lua"
LuaMessages ==
    {<<"failed to exec lua func ", Item>>,
     <<"function did not return a float64">>,
     <<"invalid number of argument requested">>}
LuaFailed == IsLua /\ out # << >> /\ out[1] \in LuaMessages
LuaDone == IsLua /\ status \in {"eval", "done"} /\ ~LuaFailed

\* C18: an extension function that succeeds takes its operands by the
\* arity it was registered with: for 0 the stack stays as it is, for 1 the
\* top item, for 2 the two top items, for -1 all items are replaced by the
\* one result.
C18_LuaArity ==
    LuaDone =>
       LET k == LuaFuncs[Item]
           n == Depth
           after == StackOf(calc)
       IN CASE k = 0 -> n >= 1 /\ after = Before
            [] k = 1 -> /\ n >= 1
                        /\ Len(after) = n
                        /\ SubSeq(after, 1, n - 1) = SubSeq(Before, 1, n - 1)
            [] k = 2 -> /\ n >= 2
                        /\ Len(after) = n - 1
                        /\ SubSeq(after, 1, n - 2) = SubSeq(Before, 1, n - 2)
            [] k = -1 -> Len(after) = 1
            [] OTHER -> FALSE

C18_Witness ==
    /\ LuaDone
    /\ Item = "lower"
    /\ Before = <<0, 2, 1>>
    /\ Len(StackOf(calc)) = 2
    /\ StackOf(calc)[1] = 0

\* C19 as stated: when the bridge fails, the item returns an error that
\* carries the message, and stack and backup stay as they were.
C19_LuaFailureReturned ==
    LuaFailed =>
       /\ err # << >>
       /\ calc.stack = prev.stack

\* the message was printed, EvalItem returned nil
C19_OnlyPrinted ==
    /\ LuaFailed
    /\ Item = "lower"
    /\ status = "done"
    /\ out[1] = <<"failed to exec lua func ", "lower">>
    /\ err = << >>
    /\ StackOf(calc) = <<2, 1>>

\* Eval has returned from a line of numbers, math functions, registers and
\* commands (nothing that asks the bridge or the editor)
LineReturned ==
    /\ status = "done"
    /\ \A i \in 1..Len(line) :
          ItemClass(line[i]) # "lua" /\ line[i] # "edit"

\* C20 as stated: the line leaves the stack, its backup, the variables and
\* the history that its items leave when every item is a line of its own.
C20_LineOrTokens ==
    LineReturned =>
       LET each == EachOnItsOwn(start, line)
       IN /\ calc.stack = each.stack
          /\ calc.Vars = each.Vars
          /\ calc.history = each.history

\* "foo 1" as a line leaves the stack as it is, foo and 1 on two lines
\* push the 1
C20_Differs ==
    /\ LineReturned
    /\ line = <<"foo", "1">>
    /\ StackOf(start) = <<2, 1>>
    /\ StackOf(calc) = <<2, 1>>
    /\ StackOf(EachOnItsOwn(start, line)) = <<2, 1, 1>>

-----------------------------------------------------------------------------
(* Comments and white space *)

\* word i of the typed line stands before every comment mark
BeforeComment(i) ==
    /\ text[i] \notin {" ", "#"}
    /\ \A j \in 1..i : text[j] # "#"

\* the typed line has no word before its first comment mark
NothingToEvaluate == \A i \in 1..Len(text) : ~BeforeComment(i)

\* C21: a line that is empty once the comment (from "#" to the end) and the
\* white space around it are gone changes nothing: stack, backup, revision,
\* variables, history and mode flags stay as they were and no error is
\* returned. Every item that is evaluated is a word from before the "#":
\* "5#19" and "5   #   19" push 5 and nothing else.
C21_Comments ==
    /\ (status # "idle" /\ NothingToEvaluate) =>
          /\ status = "done"
          /\ pos = 0
          /\ calc = start
          /\ err = << >>
          /\ out = << >>
    /\ Handled => \E i \in 1..Len(text) : BeforeComment(i) /\ text[i] = Item
    /\ (status = "done"
        /\ text \in {<<"5", "#", "19">>, <<"5", " ", "#", " ", "19">>}) =>
          /\ StackOf(calc) = StackOf(start) \o <<5>>
          /\ err = << >>

\* "   #   19" was entered on a stack that holds a number and has a backup
C21_Witness ==
    /\ status = "done"
    /\ text = <<" ", "#", " ", "19">>
    /\ StackOf(calc) # << >>
    /\ calc.stack.rev > 0

-----------------------------------------------------------------------------
(* Items that no class accepts *)

\* the items EvalItem has something to do for
Accepted ==
    {"0", "1", "2", "-1", "3", "4", "5", "6", "7", "10", "15", "16", "19",
     "20", "50", "100", "400", "Pi", "0x2", "2:00",
     "+", "-", "/", "<", ">", "sqrt", "swap", "%-", "*",
     "sum", "median", "mean", "min", "max",
     "lower", "parallelresistance", "inch2centimeter", "half", "three",
     ">X", "<X", ">TEN", "<TEN",
     "clear", "shift", "reverse", "undo", "dup", "edit",
     "batch", "nobatch", "showstack", "dump", "hex", "history", "vars",
     "manual", "help", "exit"}

\* C22: an item is evaluated without an error only if it is a number, time
\* or hex literal, a constant, a function, a batch function while batch mode
\* is on, an extension function, a register access, a command or help. Every
\* other item is refused with "unknown command or operator" and leaves the
\* stack, its backup and revision, the variables, the history and the mode
\* flags as they were.
C22_UnknownItem ==
    Handled =>
       /\ (Came /\ err = << >>) =>
             /\ Item \in Accepted
             /\ exists(BatchFuncalls, Item) =>
                   (prev.batch \/ exists(Funcalls, Item))
       /\ Item \notin Accepted =>
             /\ status = "done"
             /\ err = <<"Error: ", "unknown command or operator">>
             /\ out = << >>
             /\ calc = [prev EXCEPT !.notdone = calc.notdone]

\* "<x" is refused on a stack of two numbers
C22_Witness ==
    /\ Handled
    /\ Item = "<x"
    /\ Depth = 2
    /\ err = <<"Error: ", "unknown command or operator">>

-----------------------------------------------------------------------------
(* Display commands and reads of the stack *)

-----------------------------------------------------------------------------
(* Printing of results *)

FunctionClasses == {"funcall", "batchfuncall", "lua"}

\* the function items among the items evaluated so far
FunctionsSoFar == {i \in 1..pos : ItemClass(line[i]) \in FunctionClasses}

-----------------------------------------------------------------------------
(* Push, Pop and Shift of the Stack *)

\* C25: N pushes onto a new Stack leave a stack whose All() is the pushed
\* values in the order they were pushed and whose Len() is N; one more Push
\* puts its item behind them.
C25_PushOrder ==
    /\ \A n \in 0..MaxDepth :
          /\ All(Pushed(n)) = [i \in 1..n |-> i]
          /\ StackLen(Pushed(n)) = n
    /\ ncalls = 0 => All(stk) = [i \in 1..StackLen(stk) |-> i]
    /\ call.op = "push" =>
          /\ All(stk) = All(was) \o <<call.arg>>
          /\ StackLen(stk) = StackLen(was) + 1

\* 1, 2, 7, 8 and 7 were pushed onto a new Stack
C25_Witness ==
    /\ ncalls = 3
    /\ call.op = "push"
    /\ All(stk) = <<1, 2, 7, 8, 7>>
    /\ StackLen(stk) = 5

\* C26: Pop() on a stack that holds items takes the item pushed last off the
\* stack and returns it, the others stay; on an empty stack it returns 0
\* and leaves the list, the backup and the revision as they were.
C26_Pop ==
    /\ call.op = "pop" =>
          IF All(was) = << >>
          THEN call.ret = <<0>> /\ stk = was
          ELSE /\ call.ret = <<All(was)[StackLen(was)]>>
               /\ All(stk) = SubSeq(All(was), 1, StackLen(was) - 1)
               /\ StackLen(stk) = StackLen(was) - 1
    /\ \A item \in {7, 8} :
          /\ PopValue(Push(stk, item)) = item
          /\ All(Pop(Push(stk, item))) = All(stk)

\* the one item of a stack was popped, then Pop was called again
C26_Witness ==
    /\ call.op = "pop"
    /\ All(was) = << >>
    /\ was.rev = 2
    /\ call.ret = <<0>>

-----------------------------------------------------------------------------
(* Arguments of functions *)

\* the number of arguments an item is declared with; 0 for what is no
\* function and for the functions that take the whole stack
Declared(c, item) ==
    IF ItemClass(item) = "funcall" /\ ~FuncallOf(c, item).nil
    THEN Max(FuncallOf(c, item).Expectargs, 0)
    ELSE IF ItemClass(item) = "lua" THEN Max(FuncNumArgs(item), 0)
    ELSE 0

\* C27 as stated: the depth of the stack is checked before every function,
\* built-in or extension, is called: on a stack with fewer items than the
\* function is declared with the item is refused, the function is not
\* called and the program goes on.
C27_DepthChecked ==
    (Handled /\ Depth < Declared(prev, Item)) =>
       /\ status # "panic"
       /\ StackOf(calc) = Before

\* "lower", registered with two arguments, on a stack of one item: the
\* bridge indexes the second item and the program ends in a runtime panic
C27_Crashed ==
    /\ Handled
    /\ Item = "lower"
    /\ Depth = 1
    /\ status = "panic"

-----------------------------------------------------------------------------
(* The normal table while batch mode is on *)

\* C28 as stated: a function of the normal table is called with the number
\* of arguments it is declared with whether batch mode is on or off: while
\* it is on, "100 50 -" leaves 50 and "16 sqrt" leaves 4.
C28_NormalInBatch ==
    /\ (Handled /\ Came /\ exists(Funcalls, Item)
        /\ ~exists(BatchFuncalls, Item) /\ Depth >= Funcalls[Item]
        /\ err = << >>) =>
          Len(StackOf(calc)) = Depth - Funcalls[Item] + 1
    /\ (status = "done" /\ start.batch /\ StackOf(start) = << >>) =>
          /\ line = <<"100", "50", "-">> => StackOf(calc) = <<50>>
          /\ line = <<"16", "sqrt">> => StackOf(calc) = <<4>>

\* batch mode is on: "-" is not found in the batch table, the line returns
\* an error and 100 and 50 stay on the stack
C28_NotFound ==
    /\ status = "done"
    /\ start.batch
    /\ line = <<"100", "50", "-">>
    /\ err # << >>
    /\ StackOf(calc) = <<100, 50>>

-----------------------------------------------------------------------------
(* The steps of a function call *)

\* a built-in function was called and gave a result
BuiltinSucceeded ==
    /\ Handled
    /\ Came
    /\ err = << >>
    /\ ItemClass(Item) \in {"funcall", "batchfuncall"}
    /\ ~FuncallOf(prev, Item).nil

\* C29: a built-in function that succeeds is computed on the operands as
\* they are on the stack, then the stack is backed up, then the operands
\* (the whole stack for a batch function) are removed, then the result is
\* pushed, then one history entry is added: the backup is the stack as it
\* was before the call, a depth of n becomes n - k + 1 (1 for a batch
\* function), and what was below the operands stays.
C29_CallOrder ==
    BuiltinSucceeded =>
       LET k == FuncallOf(prev, Item).Expectargs
           n == Depth
           after == StackOf(calc)
           args == IF k = -1 THEN Before ELSE SubSeq(Before, n - k + 1, n)
           h == calc.history
       IN /\ calc.stack.backup = Before
          /\ calc.stack.backuprev = prev.stack.rev
          /\ calc.stack.rev = prev.stack.rev + 1
          /\ Len(after) = IF k = -1 THEN 1 ELSE n - k + 1
          /\ k # -1 =>
                /\ k <= n
                /\ SubSeq(after, 1, n - k) = SubSeq(Before, 1, n - k)
          /\ Len(h) = Len(prev.history) + 1
          /\ SubSeq(h, 1, Len(h) - 1) = prev.history
          /\ h[Len(h)] = [args |-> args, op |-> Item, res |-> after[Len(after)]]

\* the "-" of "3 5 + 2 -": 8 and 2 are in the backup, 6 is on the stack
C29_Witness ==
    /\ BuiltinSucceeded
    /\ line = <<"3", "5", "+", "2", "-">>
    /\ pos = 5
    /\ calc.stack.backup = <<8, 2>>
    /\ StackOf(calc) = <<6>>

\* C30 as stated: Shift(n) takes the top min(n, depth) items off the stack
\* and does nothing beyond the depth: for every n >= 1 and every depth, n
\* greater than a depth above 0 included, it returns and leaves the lowest
\* max(depth - n, 0) items as they were.
C30_ShiftBeyond ==
    call.op = "shift" =>
       /\ call.ret = << >>
       /\ All(stk) = SubSeq(All(was), 1, Max(StackLen(was) - call.arg, 0))

\* Shift(2) on a stack of one item ends in the runtime panic
C30_Panicked ==
    /\ call = [op |-> "shift", arg |-> 2, ret |-> <<"panic">>]
    /\ StackLen(was) = 1

-----------------------------------------------------------------------------
(* Last, Swap and the revision of the Stack *)

\* C31: Last() and Last(n) leave the stack as it is and return its top
\* min(n, depth) items, the lowest of them first; on an empty stack that is
\* the empty list.
C31_Last ==
    call.op = "last" =>
       LET n == StackLen(was)
           k == Min(call.arg, n)
       IN /\ stk = was
          /\ Len(call.ret) = k
          /\ \A i \in 1..k : call.ret[i] = All(was)[n - k + i]
          /\ n = 0 => call.ret = << >>

\* Last(2) on the stack 1 2 3 returned 2 3
C31_Witness ==
    /\ call = [op |-> "last", arg |-> 2, ret |-> <<2, 3>>]
    /\ All(was) = <<1, 2, 3>>

\* C32: swap exchanges the two top items and leaves the items below them
\* where they are; on a stack of fewer than two items it says so and
\* changes neither the stack nor its backup.
C32_Swap ==
    (Handled /\ Came /\ Item = "swap") =>
       LET n == Depth
       IN IF n < 2
          THEN /\ calc.stack = prev.stack
               /\ err = << >>
               /\ out # << >>
               /\ out[1] = <<"stack too small, can't swap">>
          ELSE /\ StackOf(calc) =
                     SubSeq(Before, 1, n - 2) \o <<Before[n], Before[n - 1]>>
               /\ calc.stack.backup = Before

\* swap on a stack of one item whose backup is empty
C32_Witness ==
    /\ Handled
    /\ Item = "swap"
    /\ Depth = 1
    /\ calc.stack.backup = << >>
    /\ StackOf(calc) = Before

\* C33 as stated: every call that changes the items of the stack (Push, Pop
\* on a stack that holds items, Shift, Swap, Reverse, Clear) counts the
\* revision up.
C33_RevisionCounts ==
    (call.op \in {"push", "pop", "shift", "swap", "reverse", "clear"}
     /\ (call.op = "shift" => call.ret = << >>)
     /\ All(stk) # All(was)) =>
       stk.rev = was.rev + 1

\* Shift() took an item off the stack and the revision is what it was
C33_NotCounted ==
    /\ call.op = "shift"
    /\ call.arg = 1
    /\ All(was) = <<1, 2>>
    /\ All(stk) = <<1>>
    /\ stk.rev = was.rev

-----------------------------------------------------------------------------
(* The mutex of the Stack *)

\* the goroutine is at a statement of a method that changes the stack
Inside(t) == pc[t].at \notin {"idle", "lock", "panic"}

\* C34 as stated: Push, Pop, Shift, Swap, Reverse, Clear, Backup and Restore
\* run from their first statement to their last while they hold the mutex
\* of the stack, so none of them runs while another one is half done.
C34_UnderMutex ==
    /\ \A t \in Threads : Inside(t) => mutex = t
    /\ \A t, u \in Threads : (Inside(t) /\ Inside(u)) => t = u

\* Clear ran while a Swap had taken its two items off the list: the Swap
\* pushed them back onto the cleared list
C34_ClearInside ==
    /\ \E t, u \in Threads :
          /\ pc[t] = [op |-> "swap", at |-> "pushB"]
          /\ pc[u] = Idle
          /\ local[t] = <<2, 1>>
    /\ ncalls = 2
    /\ All(stk) = <<2>>

-----------------------------------------------------------------------------
(* What replaces the backup *)

SameBackup ==
    /\ calc.stack.backup = prev.stack.backup
    /\ calc.stack.backuprev = prev.stack.backuprev

\* an item that takes a backup whether or not it changes the stack: clear,
\* shift, reverse, an extension function without arguments that gave a
\* number, edit on a stack that holds items
BacksUpAnyway ==
    /\ Handled
    /\ Came
    /\ \/ Item \in {"clear", "c", "shift", "reverse"}
       \/ Item = "edit" /\ Depth > 0
       \/ LuaDone /\ LuaFuncs[Item] = 0

\* C35 as stated: the backup is replaced only by an item that changes the
\* stack; an item that leaves the stack as it was leaves the backup as it
\* was, and "1 2 clear clear undo" ends with 1 2 on the stack.
C35_OnlyOnChange ==
    /\ (Handled /\ Came /\ StackOf(calc) = Before) => SameBackup
    /\ (status = "done" /\ StackOf(start) = << >> /\ pos = 5
        /\ line = <<"1", "2", "clear", "clear", "undo">>) =>
          StackOf(calc) = <<1, 2>>

\* C35: clear, shift, reverse, an extension function without arguments and
\* edit copy the stack as it is into the backup before they do anything
\* else, also when they then leave the stack as it was; the second clear of
\* "1 2 clear clear undo" replaces the backup 1 2 by the empty stack, and
\* undo restores the empty stack.
C35_BackupAnyway ==
    /\ BacksUpAnyway =>
          /\ calc.stack.backup = Before
          /\ calc.stack.backuprev = prev.stack.rev
    /\ (status = "done" /\ StackOf(start) = << >> /\ pos = 5
        /\ line = <<"1", "2", "clear", "clear", "undo">>) =>
          StackOf(calc) = << >>

\* the second clear of "1 2 clear clear": the stack was empty, the backup
\* 1 2 is gone
C35_Witness ==
    /\ Handled
    /\ line = <<"1", "2", "clear", "clear", "undo">>
    /\ pos = 4
    /\ Before = << >>
    /\ prev.stack.backup = <<1, 2>>
    /\ calc.stack.backup = << >>

-----------------------------------------------------------------------------
(* An item of the line fails *)

\* the last item returned an error
ItemFailed == Handled /\ err # << >>

\* C36: when an item of a line fails, the stack, its backup, the variables,
\* the history and the mode flags are what the items before it left, and
\* the failing item changed none of them: the line is not rolled back.
C36_NoRollback ==
    ItemFailed =>
       /\ status = "done"
       /\ calc = [prev EXCEPT !.notdone = calc.notdone]
       /\ LineReturned =>
             LET each == EachOnItsOwn(start, SubSeq(line, 1, pos - 1))
             IN calc = [each EXCEPT !.notdone = calc.notdone]

\* the "/" of "5 0 /" failed on a stack that held items before the line:
\* 5 and 0 stay on top of them, 5 is in the backup
C36_Witness ==
    /\ ItemFailed
    /\ line = <<"5", "0", "/">>
    /\ pos = 3
    /\ StackOf(start) # << >>
    /\ StackOf(calc) = StackOf(start) \o <<5, 0>>
    /\ calc.stack.backup = StackOf(start) \o <<5>>

-----------------------------------------------------------------------------
(* The revisions of the stack and of its backup *)

\* the revision of the backup is not above the revision of the stack, and a
\* stack of revision 0 is empty and so is its backup
Revisions(s) ==
    /\ s.backuprev <= s.rev
    /\ s.rev = 0 => (s.linklist = << >> /\ s.backup = << >>)

\* C37: in every state the revision of the backup is at most the revision
\* of the stack, and a stack of revision 0 is empty and has an empty
\* backup: undo is refused only when there is nothing it could restore.
C37_Revisions ==
    /\ Revisions(calc.stack)
    /\ Revisions(stk)
    /\ (Handled /\ Came /\ Item \in UndoNames /\ RestoreRefused(prev.stack)) =>
          /\ Before = << >>
          /\ prev.stack.backup = << >>
          /\ calc.stack = prev.stack

\* "undo undo" after a line that pushed one number: the first undo goes
\* back to revision 0, the second one is refused
C37_Witness ==
    /\ Handled
    /\ line = <<"undo", "undo">>
    /\ pos = 2
    /\ start.stack.rev = 1
    /\ calc.stack.rev = 0
    /\ out # << >>
    /\ out[1] = <<"error: stack is empty.">>

-----------------------------------------------------------------------------
(* What undo leaves alone *)

\* C38: undo changes the list of the stack and its revision and nothing
\* else: the backup and its revision, the variables, the history and the
\* mode flags are what they were, so a variable of the undone line keeps
\* its value and the history keeps the entry of the undone function.
C38_UndoOnlyStack ==
    (Handled /\ Came /\ Item \in UndoNames) =>
       /\ calc = [prev EXCEPT !.notdone = calc.notdone,
                              !.stack.linklist = calc.stack.linklist,
                              !.stack.rev = calc.stack.rev]
       /\ ~RestoreRefused(prev.stack) =>
             /\ StackOf(calc) = prev.stack.backup
             /\ calc.stack.rev = prev.stack.backuprev

\* undo on the line after "10 >TEN clear 5 <TEN *": 50 is replaced by 5 10,
\* TEN is still 10 and the history still holds the multiplication
C38_Witness ==
    /\ Handled
    /\ line = <<"undo">>
    /\ Before = <<50>>
    /\ StackOf(calc) = <<5, 10>>
    /\ calc.Vars # NoVars
    /\ calc.Vars = prev.Vars
    /\ calc.history # << >>

-----------------------------------------------------------------------------
(* Result() and the top of the stack *)

\* a function item, built-in, batch or extension, was called and gave a
\* number
FunctionDone ==
    /\ Handled
    /\ Came
    /\ ItemClass(Item) \in FunctionClasses
    /\ err = << >>
    /\ ~LuaFailed

\* the runtime panics that come before Result() is reached: the bridge
\* indexes an item the stack does not hold, median, min or max get no item
PanicBeforeResult ==
    \/ /\ IsLua
       /\ \/ LuaFuncs[Item] \in {0, 1} /\ Depth < 1
          \/ LuaFuncs[Item] = 2 /\ Depth < 2
    \/ /\ Item \in {"median", "min", "max"}
       /\ prev.batch
       /\ Depth = 0

\* C39: when Result() is reached the stack holds an item, so reading its
\* top does not fail: after every function item that gave a number, be it
\* built-in, batch or extension, the depth is at least 1.
C39_ResultHasTop ==
    /\ FunctionDone =>
          /\ StackLen(calc.stack) >= 1
          /\ Result(calc).status = "ok"
    /\ (Handled /\ status = "panic") => PanicBeforeResult

\* sum in batch mode on an empty stack: Result() finds the 0 it pushed
C39_Witness ==
    /\ FunctionDone
    /\ Item = "sum"
    /\ Depth = 0
    /\ StackOf(calc) = <<0>>
    /\ printed = <<0>>

=============================================================================
